---- MODULE Spec2Model ----
(***************************************************************************)
(* rpools: LinkedPool<T>, a pool allocator that carves page-aligned pages  *)
(* into fixed-size slots linked through an intrusive free list.           *)
(*                                                                         *)
(* Addresses are natural numbers, NULL is 0.  A page is pageSize bytes     *)
(* and starts at a multiple of pageSize.  Several client threads call      *)
(* allocate() and deallocate() on one LinkedPool<T>; m_poolLock serialises *)
(* the bodies.                                                             *)
(***************************************************************************)
EXTENDS Integers, Sequences, FiniteSets, TLC

\* ---------------------------------------------------------------- bounds
\* number of page addresses aligned_alloc can hand out
MaxPages == 3
\* the clients hold at most this many slots at once (live + in flight)
MaxLive == 5
\* number of client threads
NumThreads == 2
\* custom_new_no_throw is evaluated for every t_size up to this one
MaxRequestSize == 160
\* and for every t_alignment that is a power of two up to two to this power
MaxLogAlign == 9
\* the clients of custom_new hold at most this many small objects at once
MaxSmall == 2
\* number of block addresses malloc can hand out
MaxBlocks == 1
MaxG2Pages == 2
MaxG2Live == 2
MaxPtr == 63
MaxDispLive == 3

\* ------------------------------------------------------------- constants
NULL == 0
\* contents of a slot that is owned by a client (opaque to the allocator)
DATA == -1
\* sizeof(PoolHeader): size_t occupiedSlots + Node head
SizeofPoolHeader == 16
\* sizeof(Node): one machine pointer
SizeofNode == 8

RECURSIVE Pow2(_)
Pow2(n) == IF n = 0 THEN 1 ELSE 2 * Pow2(n - 1)

\* the page size of the allocate/deallocate machine: a page of the target
\* (4096 bytes) scaled down so that it holds one to three slots
PageSize == 64
\* the page sizes the constructor is evaluated for, up to the target's
CtorPageSizes == { Pow2(k) : k \in 6..12 }
Threads == 1..NumThreads
\* the page addresses aligned_alloc can hand out
PageAddrs == {k * PageSize : k \in 1..MaxPages}

\* the object types T the machine is instantiated with: sizeof and alignof
MachineTypes ==
    { [size |-> 16, align |-> 8],
      [size |-> 24, align |-> 8],
      [size |-> 32, align |-> 32] }

\* every object type with a power-of-two alignment up to the page size and a
\* size that is a multiple of its alignment (as C++ guarantees) up to the page
TypesFor(ps) ==
    { [size |-> s, align |-> a] :
        s \in 1..ps, a \in {Pow2(k) : k \in 0..12} }
CtorTypes(ps) == { t \in TypesFor(ps) : t.align <= ps /\ t.size % t.align = 0 }

VARIABLES
    pageSize,         \* getPageSize()
    T,                \* the template parameter: [size, align]
    constructed,      \* the LinkedPool constructor has run
    m_headerPadding,
    m_slotSize,
    m_poolSize,
    m_freePools,      \* avl_tree of the pools that have a free slot
    m_poolLock,       \* 0 when unlocked, else the thread that holds it
    m_freePool,       \* the cached pool
    heap,             \* page address -> the page's memory
    pc,               \* thread -> where it is in allocate/deallocate
    arg,              \* thread -> t_ptr of its deallocate
    ret,              \* thread -> the value its allocate returns
    live,             \* pointers returned by allocate, not yet passed to deallocate
    objs,             \* the pointers returned so far, in order, while no deallocate was called
    fresh,            \* no deallocate was called yet
    anyFreed,         \* some page was passed to free()
    solo,             \* only thread 1 has called the pool so far
    hiwater,          \* page address -> number of its slots handed out so far
    run,              \* the latest run of deallocations on one page
    pred,             \* what the run predicts for the allocate of thread 1
    oom,              \* what a failed aligned_alloc in allocate() led to
    lpool,            \* thread -> the local variable pool of its allocate/deallocate
    seq               \* the pool on which the calls so far ran one at a time

\* the state of LinkedPool<T> and of its clients
poolVars == << pageSize, T, constructed, m_headerPadding, m_slotSize, m_poolSize,
               m_freePools, m_poolLock, m_freePool, heap, pc, arg, ret, live,
               objs, fresh, anyFreed, solo, hiwater, run, pred, oom, lpool, seq >>

VARIABLES
    req,              \* the (t_size, t_alignment) of a custom_new_no_throw call
    routed,           \* where custom_new_no_throw sends the request
    wrap,             \* a call of custom_new: what custom_new_no_throw gave it, what it did
    disp,             \* the __allocators array and the threads that look a pool up in it
    mem,              \* word address -> the 8 bytes stored there
    dpages,           \* page address -> the PoolHeaderG of the page
    pools,            \* slot size -> the pool set GlobalPools keeps for it
    blocks,           \* the blocks malloc has handed out
    dlive,            \* the pointers custom_new returned, each with its origin
    last,             \* what the latest custom_new / custom_delete did
    crashed           \* the process has run into undefined behaviour and died

VARIABLES
    g2size,           \* GlobalLinkedPool2::m_sizeOfObjects
    g2heap,           \* page address -> the page: its PoolHeaderG2 and its nodes
    g2freePools,      \* GlobalLinkedPool2::m_freePools
    g2freePool,       \* GlobalLinkedPool2::m_freePool
    g2pc,             \* thread -> where it is in GlobalLinkedPool2::allocate
    g2pool,           \* thread -> the pool its allocate has selected
    g2live,           \* the pointers allocate returned, not yet deallocated
    g2obs             \* what the calls so far have run into

routeVars == << req, routed, wrap, disp >>

newVars == << mem, dpages, pools, blocks, dlive, last, crashed >>

g2Vars == << g2size, g2heap, g2freePools, g2freePool, g2pc, g2pool, g2live, g2obs >>

\* the state of custom_new / custom_delete and of GlobalLinkedPool2
auxVars == << routeVars, newVars, g2Vars, oom, lpool, seq >>

vars == << poolVars, auxVars >>

\* no request was made
NoReq == [size |-> 0, align |-> 1]

NoRoute == [path |-> "none", slot |-> 0, index |-> 0]

\* custom_new_no_throw is not being evaluated
RouteIdle ==
    /\ req = NoReq
    /\ routed = NoRoute
    /\ wrap = << >>
    /\ disp = << >>

\* custom_new / custom_delete are not in use
NewIdle ==
    /\ mem = << >>
    /\ dpages = << >>
    /\ pools = << >>
    /\ blocks = {}
    /\ dlive = {}
    /\ last = << >>
    /\ crashed = FALSE

\* no GlobalLinkedPool2 was constructed
G2Idle ==
    /\ g2size = 0
    /\ g2heap = << >>
    /\ g2freePools = {}
    /\ g2freePool = 0
    /\ g2pc = << >>
    /\ g2pool = << >>
    /\ g2live = {}
    /\ g2obs = << >>

\* the bodies of allocate() and deallocate() are not followed step by step
LinIdle ==
    /\ lpool = << >>
    /\ seq = << >>

\* custom_new / custom_delete and GlobalLinkedPool2 are not in use
AuxIdle == RouteIdle /\ NewIdle /\ G2Idle /\ oom = "none" /\ LinIdle

\* ------------------------------------------------------------ pool_utils
mod(a, b) == a % b

getPageSize == pageSize

\* t_ptr & getPoolMask(): the page that holds t_ptr
PoolOf(t_ptr) == t_ptr - (t_ptr % getPageSize)

\* -------------------------------------------------------------- avl_utils
pool_first(tree) ==
    IF tree = {} THEN NULL ELSE CHOOSE p \in tree : \A q \in tree : p <= q

pool_insert(tree, pool) == tree \cup {pool}

pool_remove(tree, pool) == tree \ {pool}

pool_count(tree) == Cardinality(tree)

\* ------------------------------------------------------------ constructor
\* m_slotSize(sizeof(T) < sizeof(Node) ? sizeof(Node) : sizeof(T))
InitSlotSize(t) == IF t.size < SizeofNode THEN SizeofNode ELSE t.size

\* mutant: the header is never padded
HeaderPaddingOf_none(t) == 0

\* make sure the first slot starts at a proper alignment
HeaderPaddingOf(t) ==
    LET diff == mod(SizeofPoolHeader, t.align)
    IN  IF diff # 0 THEN t.align - diff ELSE 0

\* mutant: the slot size is bumped by the alignment even when it is aligned
SlotSizeOf_always(t) ==
    InitSlotSize(t) + (t.align - mod(InitSlotSize(t), t.align))

\* make sure that slots are properly aligned
SlotSizeOf(t) ==
    LET diff == mod(InitSlotSize(t), t.align)
    IN  IF diff # 0 THEN InitSlotSize(t) + (t.align - diff) ELSE InitSlotSize(t)

\* mutant: the header is not taken off the page
PoolSizeOf_noHeader(ps, t) == ps \div SlotSizeOf(t)

\* m_poolSize = (getPageSize() - sizeof(PoolHeader)) / m_slotSize
PoolSizeOf(ps, t) == (ps - SizeofPoolHeader) \div SlotSizeOf(t)

\* ---------------------------------------------------------------- memory
Unmapped == [mapped |-> FALSE, occupiedSlots |-> 0, head |-> NULL, next |-> << >>]

\* address of the i-th slot (0-based) of the pool at t_ptr
SlotAddr(t_ptr, i) == t_ptr + SizeofPoolHeader + m_headerPadding + i * m_slotSize

SlotsOf(t_ptr) == { SlotAddr(t_ptr, i) : i \in 0..(m_poolSize - 1) }

\* mutant: the free list is threaded from the last slot down to the first
constructPoolHeader_descending(t_ptr) ==
    [ mapped |-> TRUE,
      occupiedSlots |-> 0,
      head |-> SlotAddr(t_ptr, m_poolSize - 1),
      next |-> [ a \in SlotsOf(t_ptr) |->
                   IF a = SlotAddr(t_ptr, 0)
                   THEN NULL ELSE a - m_slotSize ] ]

\* the page at t_ptr after constructPoolHeader(t_ptr)
constructPoolHeader(t_ptr) ==
    [ mapped |-> TRUE,
      occupiedSlots |-> 0,
      head |-> SlotAddr(t_ptr, 0),
      next |-> [ a \in SlotsOf(t_ptr) |->
                   IF a = SlotAddr(t_ptr, m_poolSize - 1)
                   THEN NULL ELSE a + m_slotSize ] ]

\* --------------------------------------------------------------- nextFree
\* mutant: the head is not advanced
PopHead_stuck(header) == header.head

\* head.next = head.next->next
PopHead(header) == header.next[header.head]

\* mutant: the pool counts as full one slot early
BecomesFull_early(occupied) == occupied >= m_poolSize - 1

\* mutant: the pool counts as full one slot late
BecomesFull_late(occupied) == occupied = m_poolSize + 1

\* ++(header->occupiedSlots) == m_poolSize
BecomesFull(occupied) == occupied = m_poolSize

\* nextFree(t_ptr) run by thread t on the memory h, the tree fps and the
\* cached pool fp that the caller has produced so far; it ends with unlock()
nextFree(t, t_ptr, h, fps, fp) ==
    LET header   == h[t_ptr]
        toReturn == header.head
        occupied == header.occupiedSlots + 1
        popped   == [header EXCEPT !.head = PopHead(header),
                                   !.occupiedSlots = occupied,
                                   !.next[toReturn] = DATA]
        fps2     == pool_remove(fps, t_ptr)
    IN  /\ IF toReturn # NULL
           THEN /\ heap' = [h EXCEPT ![t_ptr] = popped]
                /\ IF BecomesFull(occupied)
                   THEN /\ m_freePools' = fps2
                        /\ m_freePool' = pool_first(fps2)
                   ELSE /\ m_freePools' = fps
                        /\ m_freePool' = fp
           ELSE /\ heap' = h
                /\ m_freePools' = fps
                /\ m_freePool' = fp
        /\ m_poolLock' = 0
        /\ ret' = [ret EXCEPT ![t] = toReturn]
        /\ objs' = IF fresh /\ Len(objs) < m_poolSize + 2
                   THEN Append(objs, toReturn) ELSE objs

\* --------------------------------------------------------------- observer
\* The bookkeeping of test_interleaving, kept while thread 1 is the only
\* thread that has called the pool: the slots deallocated one after the other
\* on one page (latest first), the head of that page's free list before the
\* first of them was pushed, and what the following allocations should return.
NoRun == [phase |-> "none", pool |-> NULL, stack |-> << >>, below |-> NULL]

NoPred == [kind |-> "none", ptr |-> NULL, unused |-> NULL]

NoHiwater == [g \in PageAddrs |-> 0]

\* a step of thread t leaves the bookkeeping at r, p and h
Observe(t, r, p, h) ==
    /\ solo' = (solo /\ t = 1)
    /\ run' = IF solo' THEN r ELSE NoRun
    /\ pred' = IF solo' THEN p ELSE NoPred
    /\ hiwater' = IF solo' THEN h ELSE NoHiwater

\* the lowest slot of page g that was never handed out, NULL if there is none
NextUnused(g) ==
    IF g # NULL /\ hiwater[g] < m_poolSize THEN SlotAddr(g, hiwater[g]) ELSE NULL

\* thread t runs the body of allocate(), which returns toReturn
ObserveAlloc(t, toReturn) ==
    Observe(t,
        IF run.phase \in {"push", "pop"}
        THEN [run EXCEPT !.stack = Tail(run.stack),
                         !.phase = IF Tail(run.stack) = << >>
                                   THEN "after" ELSE "pop"]
        ELSE NoRun,
        IF run.phase \in {"push", "pop"}
        THEN [kind |-> "lifo", ptr |-> Head(run.stack), unused |-> NULL]
        ELSE IF run.phase = "after"
        THEN [kind |-> "after", ptr |-> run.below,
              unused |-> NextUnused(run.pool)]
        ELSE NoPred,
        LET g == PoolOf(toReturn)
        IN  IF toReturn # NULL /\ toReturn = SlotAddr(g, hiwater[g])
            THEN [hiwater EXCEPT ![g] = @ + 1]
            ELSE hiwater)

\* the body of deallocate(t_ptr) of thread t pushes t_ptr on the list of pool
ObservePush(t, pool, t_ptr) ==
    Observe(t,
        IF run.phase = "push" /\ run.pool = pool
        THEN [run EXCEPT !.stack = << t_ptr >> \o run.stack]
        ELSE [phase |-> "push", pool |-> pool, stack |-> << t_ptr >>,
              below |-> heap[pool].head],
        pred,
        hiwater)

\* the body of deallocate() of thread t frees the page pool
ObserveFree(t, pool) ==
    Observe(t, NoRun, pred, [hiwater EXCEPT ![pool] = 0])

\* ---------------------------------------------------------------- clients
\* slots held by the clients or travelling into or out of the allocator
InFlight == { t \in Threads : pc[t] # "idle" }

\* a client thread calls allocate()
AllocCall(t) ==
    /\ UNCHANGED auxVars
    /\ pc[t] = "idle"
    /\ Cardinality(live) + Cardinality(InFlight) < MaxLive
    /\ Cardinality(live) + Cardinality(InFlight) < MaxPages * m_poolSize
    /\ pc' = [pc EXCEPT ![t] = "alloc_lock"]
    /\ UNCHANGED << pageSize, T, constructed, m_headerPadding, m_slotSize,
                    m_poolSize, m_freePools, m_poolLock, m_freePool, heap,
                    arg, ret, live, objs, fresh, anyFreed >>
    /\ Observe(t, run, pred, hiwater)

\* a client thread calls deallocate(p) on a pointer it holds
DeallocCall(t, p) ==
    /\ UNCHANGED auxVars
    /\ pc[t] = "idle"
    /\ p \in live
    /\ pc' = [pc EXCEPT ![t] = "dealloc_lock"]
    /\ arg' = [arg EXCEPT ![t] = p]
    /\ live' = live \ {p}
    /\ fresh' = FALSE
    /\ objs' = << >>
    /\ UNCHANGED << pageSize, T, constructed, m_headerPadding, m_slotSize,
                    m_poolSize, m_freePools, m_poolLock, m_freePool, heap,
                    ret, anyFreed >>
    /\ Observe(t, run, pred, hiwater)

\* the client receives the pointer that allocate() returned
AllocReturn(t) ==
    /\ UNCHANGED auxVars
    /\ pc[t] = "alloc_ret"
    /\ pc' = [pc EXCEPT ![t] = "idle"]
    /\ live' = IF ret[t] # NULL THEN live \cup {ret[t]} ELSE live
    /\ ret' = [ret EXCEPT ![t] = NULL]
    /\ Observe(t, run, NoPred, hiwater)
    /\ UNCHANGED << pageSize, T, constructed, m_headerPadding, m_slotSize,
                    m_poolSize, m_freePools, m_poolLock, m_freePool, heap,
                    arg, objs, fresh, anyFreed >>

\* --------------------------------------------------------------- allocate
\* mutant: lock() returns whether or not another thread holds the lock
Unlocked_always(lock) == TRUE

\* m_poolLock.lock() returns only when no thread holds the lock
Unlocked(lock) == lock = 0

\* m_poolLock.lock() in allocate()
AllocLock(t) ==
    /\ UNCHANGED auxVars
    /\ pc[t] = "alloc_lock"
    /\ Unlocked(m_poolLock)
    /\ m_poolLock' = t
    /\ pc' = [pc EXCEPT ![t] = "alloc_cs"]
    /\ UNCHANGED << pageSize, T, constructed, m_headerPadding, m_slotSize,
                    m_poolSize, m_freePools, m_freePool, heap, arg, ret,
                    live, objs, fresh, anyFreed >>
    /\ Observe(t, run, pred, hiwater)

\* the body of allocate() after lock(), through nextFree() and its unlock()
AllocBody(t) ==
    /\ UNCHANGED auxVars
    /\ pc[t] = "alloc_cs"
    /\ pc' = [pc EXCEPT ![t] = "alloc_ret"]
    /\ IF m_freePool # NULL
       THEN nextFree(t, m_freePool, heap, m_freePools, m_freePool)
       ELSE LET first == pool_first(m_freePools)
            IN  IF first # NULL
                THEN nextFree(t, first, heap, m_freePools, m_freePool)
                ELSE \E pool \in PageAddrs :
                        \* aligned_alloc(getPageSize(), getPageSize())
                        /\ ~heap[pool].mapped
                        /\ nextFree(t, pool,
                                    [heap EXCEPT ![pool] = constructPoolHeader(pool)],
                                    pool_insert(m_freePools, pool),
                                    pool)
    /\ ObserveAlloc(t, ret'[t])
    /\ UNCHANGED << pageSize, T, constructed, m_headerPadding, m_slotSize,
                    m_poolSize, arg, live, fresh, anyFreed >>

\* ------------------------------------------------------------- deallocate
\* m_poolLock.lock() in deallocate()
DeallocLock(t) ==
    /\ UNCHANGED auxVars
    /\ pc[t] = "dealloc_lock"
    /\ Unlocked(m_poolLock)
    /\ m_poolLock' = t
    /\ pc' = [pc EXCEPT ![t] = "dealloc_cs"]
    /\ UNCHANGED << pageSize, T, constructed, m_headerPadding, m_slotSize,
                    m_poolSize, m_freePools, m_freePool, heap, arg, ret,
                    live, objs, fresh, anyFreed >>
    /\ Observe(t, run, pred, hiwater)

\* mutant: the head of the free list is not moved to the pushed slot
PushFree_lost(header, t_ptr) ==
    [header EXCEPT !.next[t_ptr] = header.head,
                   !.occupiedSlots = header.occupiedSlots - 1]

\* mutant: the page is freed while another slot is occupied
LastSlot_two(header) == header.occupiedSlots <= 2

\* mutant: the page is never freed
LastSlot_never(header) == header.occupiedSlots = 0

\* pool->occupiedSlots == 1: the last slot was deallocated
LastSlot(header) == header.occupiedSlots = 1

\* mutant: the cached pool keeps pointing at the freed page
CacheAfterFree_stale(fps, pool) == pool

\* m_freePool after the page was freed
CacheAfterFree(fps, pool) == pool_first(fps)

\* the header after t_ptr was pushed on its free list
PushFree(header, t_ptr) ==
    [header EXCEPT !.next[t_ptr] = header.head,
                   !.head = t_ptr,
                   !.occupiedSlots = header.occupiedSlots - 1]

\* mutant: a pool that was full is not put back among the pools with a free slot
WasFull_never(occupied) == FALSE

\* --pool->occupiedSlots == m_poolSize - 1: the pool was full
WasFull(occupied) == occupied = m_poolSize - 1

\* the body of deallocate() after lock(), through unlock()
DeallocBody(t) ==
    /\ UNCHANGED auxVars
    /\ pc[t] = "dealloc_cs"
    /\ pc' = [pc EXCEPT ![t] = "idle"]
    /\ LET t_ptr  == arg[t]
           pool   == PoolOf(t_ptr)
           header == heap[pool]
           pushed == PushFree(header, t_ptr)
       IN  IF LastSlot(header)
           THEN /\ m_freePools' = pool_remove(m_freePools, pool)
                /\ heap' = [heap EXCEPT ![pool] = Unmapped]
                /\ anyFreed' = TRUE
                /\ ObserveFree(t, pool)
                /\ m_freePool' = CacheAfterFree(pool_remove(m_freePools, pool), pool)
           ELSE /\ heap' = [heap EXCEPT ![pool] = pushed]
                /\ anyFreed' = anyFreed
                /\ ObservePush(t, pool, t_ptr)
                /\ m_freePool' = pool
                /\ m_freePools' = IF WasFull(pushed.occupiedSlots)
                                  THEN pool_insert(m_freePools, pool)
                                  ELSE m_freePools
    /\ m_poolLock' = 0
    /\ arg' = [arg EXCEPT ![t] = NULL]
    /\ UNCHANGED << pageSize, T, constructed, m_headerPadding, m_slotSize,
                    m_poolSize, ret, live, objs, fresh >>

\* ------------------------------------------------------------------ specs
\* the state right after LinkedPool<T>() for one of the machine's types
Init ==
    /\ pageSize = PageSize
    /\ T \in MachineTypes
    /\ constructed = TRUE
    /\ m_headerPadding = HeaderPaddingOf(T)
    /\ m_slotSize = SlotSizeOf(T)
    /\ m_poolSize = PoolSizeOf(pageSize, T)
    /\ m_freePools = {}
    /\ m_poolLock = 0
    /\ m_freePool = NULL
    /\ heap = [g \in PageAddrs |-> Unmapped]
    /\ pc = [t \in Threads |-> "idle"]
    /\ arg = [t \in Threads |-> NULL]
    /\ ret = [t \in Threads |-> NULL]
    /\ live = {}
    /\ objs = << >>
    /\ fresh = TRUE
    /\ anyFreed = FALSE
    /\ solo = TRUE
    /\ hiwater = NoHiwater
    /\ run = NoRun
    /\ pred = NoPred
    /\ AuxIdle

Next ==
    \/ \E t \in Threads : AllocCall(t)
    \/ \E t \in Threads : AllocLock(t)
    \/ \E t \in Threads : AllocBody(t)
    \/ \E t \in Threads : AllocReturn(t)
    \/ \E t \in Threads : \E p \in live : DeallocCall(t, p)
    \/ \E t \in Threads : DeallocLock(t)
    \/ \E t \in Threads : DeallocBody(t)

Spec == Init /\ [][Next]_vars

\* the constructor alone, for every type and page size
InitCtor ==
    /\ pageSize \in CtorPageSizes
    /\ T \in CtorTypes(pageSize)
    /\ constructed = FALSE
    /\ m_headerPadding = 0
    /\ m_slotSize = 0
    /\ m_poolSize = 0
    /\ m_freePools = {}
    /\ m_poolLock = 0
    /\ m_freePool = NULL
    /\ heap = [g \in PageAddrs |-> Unmapped]
    /\ pc = [t \in Threads |-> "idle"]
    /\ arg = [t \in Threads |-> NULL]
    /\ ret = [t \in Threads |-> NULL]
    /\ live = {}
    /\ objs = << >>
    /\ fresh = TRUE
    /\ anyFreed = FALSE
    /\ solo = TRUE
    /\ hiwater = NoHiwater
    /\ run = NoRun
    /\ pred = NoPred
    /\ AuxIdle

\* LinkedPool<T>::LinkedPool()
Construct ==
    /\ UNCHANGED auxVars
    /\ ~constructed
    /\ constructed' = TRUE
    /\ m_headerPadding' = HeaderPaddingOf(T)
    /\ m_slotSize' = SlotSizeOf(T)
    /\ m_poolSize' = PoolSizeOf(getPageSize, T)
    /\ UNCHANGED << pageSize, T, m_freePools, m_poolLock, m_freePool, heap,
                    pc, arg, ret, live, objs, fresh, anyFreed, solo, hiwater,
                    run, pred >>

NextCtor == Construct

SpecCtor == InitCtor /\ [][NextCtor]_vars

\* ------------------------------------------- allocate out of memory
\* the body of allocate() of thread t when the pool has no free slot and
\* aligned_alloc returns NULL: constructPoolHeader(NULL) writes through the
\* null pointer under m_poolLock; the process dies there, or the write lands
\* and allocate goes on with pool = NULL
AllocBodyOom(t) ==
    /\ oom = "none"
    /\ pc[t] = "alloc_cs"
    /\ m_freePool = NULL
    /\ pool_first(m_freePools) = NULL
    /\ \E survives \in BOOLEAN :
        IF survives
        THEN /\ nextFree(t, NULL,
                         [g \in DOMAIN heap \cup {NULL} |->
                             IF g = NULL THEN constructPoolHeader(NULL) ELSE heap[g]],
                         pool_insert(m_freePools, NULL),
                         NULL)
             /\ pc' = [pc EXCEPT ![t] = "alloc_ret"]
             /\ oom' = "wrote"
        ELSE /\ oom' = "died"
             /\ UNCHANGED << m_freePools, m_poolLock, m_freePool, heap, pc, ret, objs >>
    /\ UNCHANGED << pageSize, T, constructed, m_headerPadding, m_slotSize,
                    m_poolSize, arg, live, fresh, anyFreed, solo, hiwater, run, pred >>
    /\ UNCHANGED << routeVars, newVars, g2Vars, lpool, seq >>

\* the pool and its clients until aligned_alloc fails
NextOom ==
    \/ oom = "none" /\ Next
    \/ \E t \in Threads : AllocBodyOom(t)

SpecOom == Init /\ [][NextOom]_vars

\* ------------------------------------ allocate and deallocate step by step
\* nextFree(pool) as one whole on the pool st, for the allocate of thread t
SeqNextFree(st, t, pool) ==
    LET header   == st.heap[pool]
        toReturn == header.head
        occupied == header.occupiedSlots + 1
        popped   == [header EXCEPT !.head = PopHead(header),
                                   !.occupiedSlots = occupied,
                                   !.next[toReturn] = DATA]
        fps2     == pool_remove(st.fps, pool)
    IN  IF toReturn = NULL
        THEN [st EXCEPT !.ret[t] = NULL]
        ELSE IF BecomesFull(occupied)
        THEN [heap |-> [st.heap EXCEPT ![pool] = popped],
              fps  |-> fps2,
              fp   |-> pool_first(fps2),
              ret  |-> [st.ret EXCEPT ![t] = toReturn]]
        ELSE [heap |-> [st.heap EXCEPT ![pool] = popped],
              fps  |-> st.fps,
              fp   |-> st.fp,
              ret  |-> [st.ret EXCEPT ![t] = toReturn]]

\* allocate() as one whole on the pool st; page is what aligned_alloc returns
\* if it is called
SeqAllocate(st, t, page) ==
    IF st.fp # NULL
    THEN SeqNextFree(st, t, st.fp)
    ELSE IF pool_first(st.fps) # NULL
    THEN SeqNextFree(st, t, pool_first(st.fps))
    ELSE IF page = NULL
    THEN [st EXCEPT !.ret[t] = NULL]
    ELSE SeqNextFree([st EXCEPT !.heap[page] = constructPoolHeader(page),
                                !.fps = pool_insert(st.fps, page),
                                !.fp = page],
                     t, page)

\* deallocate(t_ptr) as one whole on the pool st
SeqDeallocate(st, t_ptr) ==
    LET pool   == PoolOf(t_ptr)
        header == st.heap[pool]
        pushed == PushFree(header, t_ptr)
    IN  IF LastSlot(header)
        THEN [st EXCEPT !.heap[pool] = Unmapped,
                        !.fps = pool_remove(st.fps, pool),
                        !.fp = CacheAfterFree(pool_remove(st.fps, pool), pool)]
        ELSE [st EXCEPT !.heap[pool] = pushed,
                        !.fp = pool,
                        !.fps = IF WasFull(pushed.occupiedSlots)
                                THEN pool_insert(st.fps, pool) ELSE st.fps]

\* a page that is free in the pool st, NULL if there is none
SeqFreePage(st) ==
    IF \E g \in PageAddrs : ~st.heap[g].mapped
    THEN CHOOSE g \in PageAddrs : ~st.heap[g].mapped
    ELSE NULL

\* allocate() of thread t after lock(), up to the call of nextFree: the
\* choice of the pool, and the new page if no pool has a free slot
AllocSelect(t) ==
    /\ pc[t] = "alloc_cs"
    /\ pc' = [pc EXCEPT ![t] = "alloc_next"]
    /\ IF m_freePool # NULL
       THEN /\ lpool' = [lpool EXCEPT ![t] = m_freePool]
            /\ seq' = SeqAllocate(seq, t, SeqFreePage(seq))
            /\ UNCHANGED << heap, m_freePools, m_freePool >>
       ELSE IF pool_first(m_freePools) # NULL
       THEN /\ lpool' = [lpool EXCEPT ![t] = pool_first(m_freePools)]
            /\ seq' = SeqAllocate(seq, t, SeqFreePage(seq))
            /\ UNCHANGED << heap, m_freePools, m_freePool >>
       ELSE \E pool \in PageAddrs :
            /\ ~heap[pool].mapped
            /\ heap' = [heap EXCEPT ![pool] = constructPoolHeader(pool)]
            /\ m_freePools' = pool_insert(m_freePools, pool)
            /\ m_freePool' = pool
            /\ lpool' = [lpool EXCEPT ![t] = pool]
            /\ seq' = SeqAllocate(seq, t, pool)
    /\ Observe(t, NoRun, NoPred, NoHiwater)
    /\ UNCHANGED << pageSize, T, constructed, m_headerPadding, m_slotSize,
                    m_poolSize, m_poolLock, arg, ret, live, objs, fresh, anyFreed >>
    /\ UNCHANGED << routeVars, newVars, g2Vars, oom >>

\* nextFree(pool) in allocate() of thread t, through unlock()
AllocNext(t) ==
    /\ pc[t] = "alloc_next"
    /\ pc' = [pc EXCEPT ![t] = "alloc_ret"]
    /\ nextFree(t, lpool[t], heap, m_freePools, m_freePool)
    /\ lpool' = [lpool EXCEPT ![t] = NULL]
    /\ seq' = [seq EXCEPT !.ret[t] = NULL]
    /\ Observe(t, NoRun, NoPred, NoHiwater)
    /\ UNCHANGED << pageSize, T, constructed, m_headerPadding, m_slotSize,
                    m_poolSize, arg, live, fresh, anyFreed >>
    /\ UNCHANGED << routeVars, newVars, g2Vars, oom >>

\* deallocate() of thread t after lock(): the test of occupiedSlots, then
\* pool_remove and free(pool), or the new Node at the head of the free list
DeallocFirst(t) ==
    /\ pc[t] = "dealloc_cs"
    /\ LET t_ptr  == arg[t]
           pool   == PoolOf(t_ptr)
           header == heap[pool]
       IN  /\ lpool' = [lpool EXCEPT ![t] = pool]
           /\ seq' = SeqDeallocate(seq, t_ptr)
           /\ IF LastSlot(header)
              THEN /\ m_freePools' = pool_remove(m_freePools, pool)
                   /\ heap' = [heap EXCEPT ![pool] = Unmapped]
                   /\ anyFreed' = TRUE
                   /\ pc' = [pc EXCEPT ![t] = "dealloc_freed"]
              ELSE /\ heap' = [heap EXCEPT ![pool] =
                                  [header EXCEPT !.next[t_ptr] = header.head,
                                                 !.head = t_ptr]]
                   /\ pc' = [pc EXCEPT ![t] = "dealloc_pushed"]
                   /\ UNCHANGED << m_freePools, anyFreed >>
    /\ Observe(t, NoRun, NoPred, NoHiwater)
    /\ UNCHANGED << pageSize, T, constructed, m_headerPadding, m_slotSize,
                    m_poolSize, m_poolLock, m_freePool, arg, ret, live, objs, fresh >>
    /\ UNCHANGED << routeVars, newVars, g2Vars, oom >>

\* the rest of deallocate() of thread t: the new cached pool, the count of
\* the pool and its return to the tree, through unlock()
DeallocSecond(t) ==
    /\ pc[t] \in {"dealloc_freed", "dealloc_pushed"}
    /\ pc' = [pc EXCEPT ![t] = "idle"]
    /\ LET pool     == lpool[t]
           occupied == heap[pool].occupiedSlots - 1
       IN  IF pc[t] = "dealloc_freed"
           THEN /\ m_freePool' = CacheAfterFree(m_freePools, pool)
                /\ UNCHANGED << heap, m_freePools >>
           ELSE /\ m_freePool' = pool
                /\ heap' = [heap EXCEPT ![pool].occupiedSlots = occupied]
                /\ m_freePools' = IF WasFull(occupied)
                                  THEN pool_insert(m_freePools, pool)
                                  ELSE m_freePools
    /\ m_poolLock' = 0
    /\ arg' = [arg EXCEPT ![t] = NULL]
    /\ lpool' = [lpool EXCEPT ![t] = NULL]
    /\ Observe(t, NoRun, NoPred, NoHiwater)
    /\ UNCHANGED << pageSize, T, constructed, m_headerPadding, m_slotSize,
                    m_poolSize, ret, live, objs, fresh, anyFreed >>
    /\ UNCHANGED << routeVars, newVars, g2Vars, oom, seq >>

\* the state right after LinkedPool<T>(), and the same pool for the calls
\* run one at a time
InitLin ==
    /\ pageSize = PageSize
    /\ T \in MachineTypes
    /\ constructed = TRUE
    /\ m_headerPadding = HeaderPaddingOf(T)
    /\ m_slotSize = SlotSizeOf(T)
    /\ m_poolSize = PoolSizeOf(pageSize, T)
    /\ m_freePools = {}
    /\ m_poolLock = 0
    /\ m_freePool = NULL
    /\ heap = [g \in PageAddrs |-> Unmapped]
    /\ pc = [t \in Threads |-> "idle"]
    /\ arg = [t \in Threads |-> NULL]
    /\ ret = [t \in Threads |-> NULL]
    /\ live = {}
    /\ objs = << >>
    /\ fresh = TRUE
    /\ anyFreed = FALSE
    /\ solo = TRUE
    /\ hiwater = NoHiwater
    /\ run = NoRun
    /\ pred = NoPred
    /\ oom = "none"
    /\ lpool = [t \in Threads |-> NULL]
    /\ seq = [heap |-> [g \in PageAddrs |-> Unmapped],
              fps  |-> {},
              fp   |-> NULL,
              ret  |-> [t \in Threads |-> NULL]]
    /\ RouteIdle
    /\ NewIdle
    /\ G2Idle

NextLin ==
    \/ \E t \in Threads : AllocCall(t)
    \/ \E t \in Threads : AllocLock(t)
    \/ \E t \in Threads : AllocSelect(t)
    \/ \E t \in Threads : AllocNext(t)
    \/ \E t \in Threads : AllocReturn(t)
    \/ \E t \in Threads : \E p \in live : DeallocCall(t, p)
    \/ \E t \in Threads : DeallocLock(t)
    \/ \E t \in Threads : DeallocFirst(t)
    \/ \E t \in Threads : DeallocSecond(t)

SpecLin == InitLin /\ [][NextLin]_vars


\* the LinkedPool<T> of the machine is constructed and not in use
PoolIdle ==
    /\ pageSize = PageSize
    /\ T = [size |-> 16, align |-> 8]
    /\ constructed = TRUE
    /\ m_headerPadding = HeaderPaddingOf(T)
    /\ m_slotSize = SlotSizeOf(T)
    /\ m_poolSize = PoolSizeOf(pageSize, T)
    /\ m_freePools = {}
    /\ m_poolLock = 0
    /\ m_freePool = NULL
    /\ heap = [g \in PageAddrs |-> Unmapped]
    /\ pc = [t \in Threads |-> "idle"]
    /\ arg = [t \in Threads |-> NULL]
    /\ ret = [t \in Threads |-> NULL]
    /\ live = {}
    /\ objs = << >>
    /\ fresh = TRUE
    /\ anyFreed = FALSE
    /\ solo = TRUE
    /\ hiwater = NoHiwater
    /\ run = NoRun
    /\ pred = NoPred
    /\ oom = "none"
    /\ LinIdle

\* ------------------------------------------- custom_new_no_throw: routing
\* const size_t __threshold = 128
threshold == 128

\* sizeof(void*)
SizeofVoidPtr == 8

\* const size_t __mod = sizeof(void*) - 1
modMask == SizeofVoidPtr - 1

\* number of pool sets: GlobalPools pools(__threshold >> __logOfVoid)
NumPools == threshold \div SizeofVoidPtr

\* size_t arithmetic wraps; the 64 bits of size_t are scaled down to 30, far
\* above every size and address of the model
SizeModulus == Pow2(30)

\* remainder == 0 ? t_size : (t_size + __mod) & ~__mod
RoundUp(t_size) ==
    LET remainder == t_size % SizeofVoidPtr
    IN  IF remainder = 0
        THEN t_size
        ELSE ((t_size + modMask) \div SizeofVoidPtr) * SizeofVoidPtr

\* (mod(t_size, t_alignment)) == 0 ? 0 : sizeof(void*)
AlignBump(t_size, t_alignment) ==
    IF mod(t_size, t_alignment) = 0 THEN 0 ELSE SizeofVoidPtr

\* the t_size that custom_new_no_throw passes to getPool
SlotSizeFor(t_size, t_alignment) ==
    RoundUp(t_size) + AlignBump(RoundUp(t_size), t_alignment)

\* if (t_size > __threshold): use malloc for large sizes
IsLarge(t_size) == t_size > threshold

\* (size >> __logOfVoid) - 1, in size_t
getAllocatorsIndex(size) == ((size \div SizeofVoidPtr) - 1) % SizeModulus

\* "pools that are not divisible by 16, have alignment 8, otherwise 16"
SlotAlignment(slot) == IF slot % 16 = 0 THEN 16 ELSE 8

\* where custom_new_no_throw(t_size, t_alignment) sends the request
RouteOf(t_size, t_alignment) ==
    IF IsLarge(t_size)
    THEN [path |-> "large", slot |-> 0, index |-> 0]
    ELSE [path  |-> "small",
          slot  |-> SlotSizeFor(t_size, t_alignment),
          index |-> getAllocatorsIndex(SlotSizeFor(t_size, t_alignment))]

\* the requests: every size up to MaxRequestSize with every power-of-two
\* alignment up to 2^MaxLogAlign
Requests ==
    { [size |-> n, align |-> Pow2(k)] : n \in 0..MaxRequestSize, k \in 0..MaxLogAlign }

\* a caller is about to call custom_new_no_throw(req.size, req.align)
InitRoute ==
    /\ req \in Requests
    /\ routed = NoRoute
    /\ wrap = << >>
    /\ disp = << >>
    /\ PoolIdle
    /\ NewIdle
    /\ G2Idle

\* custom_new_no_throw up to the call of malloc or of getPool
Route ==
    /\ routed.path = "none"
    /\ routed' = RouteOf(req.size, req.align)
    /\ UNCHANGED << req, wrap, disp, poolVars, newVars, g2Vars >>

NextRoute == Route

SpecRoute == InitRoute /\ [][NextRoute]_vars

\* ------------------------------------------------------------ custom_new
\* the values custom_new_no_throw can hand to custom_new: nullptr and the
\* addresses up to MaxPtr
ToRetValues == 0..MaxPtr

\* mutant: the result of custom_new_no_throw is returned as it is
custom_new_unchecked(toRet) == [threw |-> FALSE, result |-> toRet]

\* custom_new after its call of custom_new_no_throw, which returned toRet
custom_new(toRet) ==
    IF toRet = NULL
    THEN [threw |-> TRUE, result |-> NULL]
    ELSE [threw |-> FALSE, result |-> toRet]

\* custom_new_no_throw has returned toRet to custom_new
InitWrap ==
    /\ wrap \in { [toRet |-> p, done |-> FALSE, threw |-> FALSE, result |-> NULL] :
                    p \in ToRetValues }
    /\ req = NoReq
    /\ routed = NoRoute
    /\ disp = << >>
    /\ PoolIdle
    /\ NewIdle
    /\ G2Idle

\* the test of toRet and the throw or the return
CustomNewWrap ==
    /\ ~wrap.done
    /\ wrap' = [wrap EXCEPT !.done = TRUE,
                            !.threw = custom_new(wrap.toRet).threw,
                            !.result = custom_new(wrap.toRet).result]
    /\ UNCHANGED << req, routed, disp, poolVars, newVars, g2Vars >>

NextWrap == CustomNewWrap

SpecWrap == InitWrap /\ [][NextWrap]_vars

\* ------------------------------------------------------------ __allocators
\* the threads that call custom_new_no_throw and custom_delete
DispThreads == {1, 2}

\* the rounded sizes the threads ask for
DispSizes == {8, 16}

\* the entries of __allocators that these sizes use
DispIndexes == { getAllocatorsIndex(size) : size \in DispSizes }

\* a thread outside custom_new_no_throw
NoLookup == [size |-> 0, poolAlloc |-> NULL]

\* tells the pointers of one pool object apart: the least number none of them has
DispFresh(size, pool) ==
    LET used == { q.nth : q \in { k \in disp.ptrs : k.size = size /\ k.from = pool } }
    IN  CHOOSE n \in 0..Cardinality(used) :
            n \notin used /\ \A m \in 0..(n - 1) : m \in used

\* calls of custom_new_no_throw in progress and objects in use
DispInUse ==
    Cardinality(disp.ptrs) + Cardinality({ t \in DispThreads : disp.pc[t] # "idle" })

\* custom_new_no_throw(size) of thread t up to the test of poolAlloc: the
\* entry of __allocators is read, without any lock
DispLookup(t, size) ==
    /\ disp.pc[t] = "idle"
    /\ DispInUse < MaxDispLive
    /\ disp' = [disp EXCEPT
            !.pc[t] = "looked",
            !.loc[t] = [size |-> size,
                        poolAlloc |-> disp.allocators[getAllocatorsIndex(size)]]]
    /\ UNCHANGED << req, routed, wrap, poolVars, newVars, g2Vars >>

\* the else branch: a new pool object is constructed and stored in
\* __allocators; pool objects are numbered per entry in the order of creation
DispCreate(t) ==
    /\ disp.pc[t] = "looked"
    /\ disp.loc[t].poolAlloc = NULL
    /\ LET index   == getAllocatorsIndex(disp.loc[t].size)
           newPool == disp.created[index] + 1
       IN  disp' = [disp EXCEPT
               !.created[index] = newPool,
               !.allocators[index] = newPool,
               !.loc[t].poolAlloc = newPool]
    /\ UNCHANGED << req, routed, wrap, poolVars, newVars, g2Vars >>

\* poolAlloc->allocate() or newPool->allocate(), and the return
DispAllocate(t) ==
    /\ disp.pc[t] = "looked"
    /\ disp.loc[t].poolAlloc # NULL
    /\ LET size == disp.loc[t].size
           pool == disp.loc[t].poolAlloc
       IN  disp' = [disp EXCEPT
               !.pc[t] = "idle",
               !.loc[t] = NoLookup,
               !.ptrs = @ \cup {[size |-> size, from |-> pool,
                                  nth |-> DispFresh(size, pool)]}]
    /\ UNCHANGED << req, routed, wrap, poolVars, newVars, g2Vars >>

\* custom_delete(ptr) on a pointer of a pool: the size in the header of its
\* page selects the entry of __allocators whose deallocate is called
DispDelete(ptr) ==
    /\ \E t \in DispThreads : disp.pc[t] = "idle"
    /\ LET to == disp.allocators[getAllocatorsIndex(ptr.size)]
       IN  disp' = [disp EXCEPT
               !.ptrs = @ \ {ptr},
               !.misdelivered = @ \/ (to # ptr.from)]
    /\ UNCHANGED << req, routed, wrap, poolVars, newVars, g2Vars >>

\* __allocators(__threshold >> __logOfVoid): every entry is null
InitDisp ==
    /\ disp = [allocators   |-> [i \in DispIndexes |-> NULL],
               created      |-> [i \in DispIndexes |-> 0],
               pc           |-> [t \in DispThreads |-> "idle"],
               loc          |-> [t \in DispThreads |-> NoLookup],
               ptrs         |-> {},
               misdelivered |-> FALSE]
    /\ req = NoReq
    /\ routed = NoRoute
    /\ wrap = << >>
    /\ PoolIdle
    /\ NewIdle
    /\ G2Idle

NextDisp ==
    \/ \E t \in DispThreads : \E size \in DispSizes : DispLookup(t, size)
    \/ \E t \in DispThreads : DispCreate(t)
    \/ \E t \in DispThreads : DispAllocate(t)
    \/ \E ptr \in disp.ptrs : DispDelete(ptr)

SpecDisp == InitDisp /\ [][NextDisp]_vars

\* ----------------------------------------------------------------- claims
AllIdle == \A t \in Threads : pc[t] = "idle"

MappedPages == { g \in PageAddrs : heap[g].mapped }

\* pointers that allocate() has returned and the client has not received yet
Returning == { ret[t] : t \in { u \in Threads : pc[u] = "alloc_ret" } }

\* pointers passed to a deallocate() whose body has not run yet
Deallocating ==
    { arg[t] : t \in { u \in Threads : pc[u] \in {"dealloc_lock", "dealloc_cs"} } }

\* C1: every pointer that allocate() returns is non-null and differs from
\* every pointer that is live, from every pointer that another allocate() is
\* returning, and from every pointer whose deallocate() has not run yet.
C1_DistinctNonNull ==
    \A t \in Threads :
        pc[t] = "alloc_ret" =>
            /\ ret[t] # NULL
            /\ ret[t] \notin live
            /\ ret[t] \notin Deallocating
            /\ \A u \in Threads \ {t} : pc[u] = "alloc_ret" => ret[u] # ret[t]

\* C1 witness: an allocate() returns a recycled slot while others are live
C1_Witness ==
    \E t \in Threads :
        /\ pc[t] = "alloc_ret"
        /\ ~fresh
        /\ Cardinality(live) >= 2
        /\ \E p \in live : ret[t] < p /\ PoolOf(p) = PoolOf(ret[t])

\* C2: the page of every pointer that is live, being returned, or waiting for
\* its deallocate() body is mapped: no page is freed while a slot of it is live.
C2_PageOfLiveSlotMapped ==
    \A p \in live \cup Returning \cup Deallocating : heap[PoolOf(p)].mapped

\* C2 witness: a deallocate() has pushed a slot of a page that still holds a
\* live slot (a slot below the live one is on the page's free list)
C2_Witness ==
    /\ AllIdle
    /\ ~fresh
    /\ \E p \in live :
          /\ heap[PoolOf(p)].mapped
          /\ heap[PoolOf(p)].occupiedSlots = 1
          /\ heap[PoolOf(p)].head # NULL
          /\ heap[PoolOf(p)].head < p

\* a step of thread t that runs the body of deallocate() on page g
DeallocStepOn(t, g) ==
    /\ pc[t] = "dealloc_cs"
    /\ pc'[t] = "idle"
    /\ PoolOf(arg[t]) = g

\* C3: a step frees page g iff it is the body of a deallocate() on a slot of
\* g whose occupied count is 1; allocate() and a deallocate() that leaves the
\* page occupied free nothing.
C3_ReleasedIffLastSlot ==
    [][ \A g \in PageAddrs :
            (heap[g].mapped /\ ~heap'[g].mapped)
            <=> ( /\ heap[g].mapped
                  /\ heap[g].occupiedSlots = 1
                  /\ \E t \in Threads : DeallocStepOn(t, g) ) ]_vars

\* C3 witness: a page was freed while slots of other pages stay live
C3_Witness == AllIdle /\ anyFreed /\ live # {} /\ m_freePools # {}

\* C4: when every pointer has been deallocated and no call is in progress, no
\* page is mapped, the tree of pools is empty and the cached pool is null.
C4_RoundTrip ==
    (AllIdle /\ live = {}) =>
        /\ MappedPages = {}
        /\ pool_count(m_freePools) = 0
        /\ m_freePool = NULL

\* C4 witness: pointers were allocated and all of them deallocated
C4_Witness == AllIdle /\ live = {} /\ anyFreed /\ ~fresh

\* C5: while no deallocate() was called, the first P pointers lie in one page,
\* the i-th (0-based) at the first pointer plus i slots.
C5_FirstPageAscending ==
    \A i \in 1..Len(objs) :
        i <= m_poolSize =>
            /\ objs[i] = objs[1] + (i - 1) * m_slotSize
            /\ PoolOf(objs[i]) = PoolOf(objs[1])

\* C5 witness: a page of three slots was filled
C5_Witness == m_poolSize = 3 /\ Len(objs) >= 3 /\ AllIdle

\* C6 as claimed: the (P+1)-th pointer lies in another page than the first,
\* and the (P+2)-th is one slot after the (P+1)-th in that second page.
C6_Original ==
    /\ Len(objs) >= m_poolSize + 1 =>
          PoolOf(objs[m_poolSize + 1]) # PoolOf(objs[1])
    /\ Len(objs) >= m_poolSize + 2 =>
          /\ objs[m_poolSize + 2] = objs[m_poolSize + 1] + m_slotSize
          /\ PoolOf(objs[m_poolSize + 2]) = PoolOf(objs[m_poolSize + 1])

\* C6 amended: the (P+1)-th pointer lies in another page than the first; when
\* P >= 2 the (P+2)-th is one slot after the (P+1)-th in that second page, and
\* when P = 1 it lies in a third page.
C6_SpillToSecondPage ==
    /\ Len(objs) >= m_poolSize + 1 =>
          PoolOf(objs[m_poolSize + 1]) # PoolOf(objs[1])
    /\ (Len(objs) >= m_poolSize + 2 /\ m_poolSize >= 2) =>
          /\ objs[m_poolSize + 2] = objs[m_poolSize + 1] + m_slotSize
          /\ PoolOf(objs[m_poolSize + 2]) = PoolOf(objs[m_poolSize + 1])
    /\ (Len(objs) >= m_poolSize + 2 /\ m_poolSize = 1) =>
          /\ objs[3] # NULL
          /\ PoolOf(objs[3]) \notin {PoolOf(objs[1]), PoolOf(objs[2])}

\* C6 witness: P + 2 pointers were allocated from pages of at least two slots
C6_Witness == m_poolSize >= 2 /\ Len(objs) = m_poolSize + 2

\* a step of thread t that runs the body of allocate()
AllocStep(t) == pc[t] = "alloc_cs" /\ pc'[t] = "alloc_ret"

HasFreeSlot(g) == heap[g].mapped /\ heap[g].occupiedSlots < m_poolSize

\* C8: a step maps a new page only if every mapped page is full, and an
\* allocate() that runs while some mapped page has a free slot returns a slot
\* of a page that was mapped before.
C8_NewPageOnlyIfAllFull ==
    [][ /\ (\E g \in PageAddrs : ~heap[g].mapped /\ heap'[g].mapped)
            => \A g \in PageAddrs : ~HasFreeSlot(g)
        /\ \A t \in Threads :
              (AllocStep(t) /\ \E g \in PageAddrs : HasFreeSlot(g))
                  => /\ ret'[t] # NULL
                     /\ heap[PoolOf(ret'[t])].mapped ]_vars

\* C8 witness: two pages were filled, a slot was deallocated without freeing
\* a page, and the following allocations filled both pages again
C8_Witness ==
    /\ AllIdle
    /\ ~fresh
    /\ ~anyFreed
    /\ Cardinality(MappedPages) = 2
    /\ \A g \in MappedPages : heap[g].occupiedSlots = m_poolSize
    /\ Cardinality(live) = 2 * m_poolSize

\* C7 as claimed, for thread 1 while it is the only thread: after slots
\* p1, ..., pk were deallocated one after the other on one page that was not
\* freed, the next k allocations return pk, ..., p1, and the allocation after
\* those returns the lowest slot of that page that was never handed out.
C7_Original ==
    pc[1] = "alloc_ret" =>
        /\ pred.kind = "lifo" => ret[1] = pred.ptr
        /\ pred.kind = "after" => (pred.unused # NULL /\ ret[1] = pred.unused)

\* C7 amended: the next k allocations return pk, ..., p1, and the allocation
\* after those returns the slot that headed the page's free list before p1
\* was pushed, when the page was not full then.
C7_LifoRecycling ==
    pc[1] = "alloc_ret" =>
        /\ pred.kind = "lifo" => ret[1] = pred.ptr
        /\ (pred.kind = "after" /\ pred.ptr # NULL) => ret[1] = pred.ptr

\* C7 witness: the deallocated slots were all returned, and the allocation
\* after them returns the slot that was below them on the free list
C7_Witness ==
    /\ pc[1] = "alloc_ret"
    /\ pred.kind = "after"
    /\ pred.ptr # NULL
    /\ ret[1] = pred.ptr

\* C9: the capacity the constructor computes equals
\* floor((page_size - sizeof(PoolHeader) - header_padding) / slot_size), for
\* every type whose alignment is a power of two up to the page size.
C9_CapacityFormula ==
    constructed =>
        m_poolSize =
            (pageSize - SizeofPoolHeader - m_headerPadding) \div m_slotSize

\* C9 witness: a pool of an over-aligned type, whose header is padded
C9_Witness ==
    /\ constructed
    /\ pageSize = 4096
    /\ m_headerPadding > 0
    /\ m_poolSize > 1

\* C10 as claimed: getPoolSize() equals
\* floor((page_size - sizeof(PoolHeader)) / sizeof(T)) for every type T.
C10_Original ==
    constructed => m_poolSize = (pageSize - SizeofPoolHeader) \div T.size

\* C10 amended: getPoolSize() equals
\* floor((page_size - sizeof(PoolHeader)) / sizeof(T)) for every type T with
\* sizeof(T) >= sizeof(Node), and
\* floor((page_size - sizeof(PoolHeader)) / sizeof(Node)) for a smaller T.
C10_PoolSize ==
    constructed =>
        m_poolSize =
            (pageSize - SizeofPoolHeader)
                \div (IF T.size >= SizeofNode THEN T.size ELSE SizeofNode)

\* C10 witness: 170 objects of 24 bytes in a page of 4096 bytes
C10_Witness ==
    /\ constructed
    /\ pageSize = 4096
    /\ T.size = 24
    /\ m_poolSize = 170

\* ------------------------------------------- custom_new / custom_delete
\* Memory is an array of 8-byte words.  A word holds a pointer (a natural
\* number), or one of the byte strings below.
\* sizeof(MallocHeader): char validity[16]
SizeofMallocHeader == 16

\* the first 8 bytes of "IsThIsMaLlOcD!": "IsThIsMa"
SENT_LO == -2

\* the next 7 bytes, which end the string: "LlOcD!" and the terminating NUL
SENT_HI == -3

\* a word of a pool header
HDR == -4

\* the first 8 bytes of MallocHeader(): eight spaces
BLANK_LO == -5

\* the last 8 bytes of MallocHeader(): six spaces and two NULs
BLANK_HI == -6

\* the page size of the machine of custom_new: a page of the target scaled
\* down so that it holds ten 8-byte or five 16-byte slots
DPageSize == 128

\* pool slots start at least 48 bytes after the page boundary
SizeofPoolHeaderG == 48

\* the slot sizes the machine requests: the two smallest classes
DClasses == {8, 16}

\* the page addresses the page allocator can hand out: one for each pool set
\* of the machine
DPageAddrs == { k * DPageSize : k \in 1..Cardinality(DClasses) }

\* the block addresses malloc can hand out, above the pages
MallocBase == 8 * DPageSize

MallocAddrs == { MallocBase + 32 * j : j \in 0..(MaxBlocks - 1) }

\* the words of the page at base
PageWords(base) == { base + 8 * k : k \in 0..((DPageSize \div 8) - 1) }

\* the words of the model: the two words at the null address, the pages, and
\* the MallocHeader and first word of every block
WordAddrs ==
    {0, 8} \cup UNION { PageWords(base) : base \in DPageAddrs }
           \cup UNION { {a, a + 8, a + 16} : a \in MallocAddrs }

\* the requests of the machine: three small ones and one large one
NewRequests ==
    { [size |-> 8, align |-> 8], [size |-> 8, align |-> 16],
      [size |-> 12, align |-> 8], [size |-> 200, align |-> 16] }

\* t_ptr & POOL_MASK
DPoolOf(t_ptr) == t_ptr - (t_ptr % DPageSize)

\* number of slots of a page of slot size slot
DPoolSize(slot) == (DPageSize - SizeofPoolHeaderG) \div slot

DSlotAddr(base, slot, i) == base + SizeofPoolHeaderG + i * slot

DSlotsOf(base, slot) == { DSlotAddr(base, slot, i) : i \in 0..(DPoolSize(slot) - 1) }

NoPage == [mapped |-> FALSE, sizeOfSlot |-> 0, occupied |-> 0, head |-> NULL]

NoLast == [op |-> "none", ptr |-> NULL, kind |-> "none", slot |-> 0,
           via |-> "none", target |-> 0, mallocNull |-> FALSE]

\* the memory m after a pool of slot size slot was laid out in the page at
\* base: the header, then the slots, each linked to the next one
ConstructPage(m, base, slot) ==
    [ a \in WordAddrs |->
        IF a \notin PageWords(base) THEN m[a]
        ELSE IF a < base + SizeofPoolHeaderG THEN HDR
        ELSE IF a \in DSlotsOf(base, slot)
        THEN (IF a = DSlotAddr(base, slot, DPoolSize(slot) - 1)
              THEN NULL ELSE a + slot)
        ELSE DATA ]

\* the memory m after the page at base went back to the system
ReleasePage(m, base) ==
    [ a \in WordAddrs |-> IF a \in PageWords(base) THEN 0 ELSE m[a] ]

\* mutant: the header keeps the spaces of MallocHeader()
WriteSentinel_blank(m, addr) ==
    [m EXCEPT ![addr] = BLANK_LO, ![addr + 8] = BLANK_HI]

\* new(addr) MallocHeader(); strcpy(header->validity, "IsThIsMaLlOcD!")
WriteSentinel(m, addr) ==
    [m EXCEPT ![addr] = SENT_LO, ![addr + 8] = SENT_HI]

\* return addr + sizeof(MallocHeader)
LargePtr(addr) == addr + SizeofMallocHeader

\* strcmp(header->validity, "IsThIsMaLlOcD!") == 0 at t_ptr - sizeof(MallocHeader)
IsMallocd(m, t_ptr) ==
    /\ m[t_ptr - SizeofMallocHeader] = SENT_LO
    /\ m[t_ptr - SizeofMallocHeader + 8] = SENT_HI

SmallLive == { l \in dlive : l.kind = "small" }

LargeLive == { l \in dlive : l.kind = "large" }

\* the large path of custom_new_no_throw: malloc hands out the block addr, or
\* NULL; the write through NULL either kills the process or lands in memory
NewLarge(r) ==
    /\ Cardinality(LargeLive) < MaxBlocks
    /\ \E addr \in (MallocAddrs \ blocks) \cup {NULL} :
          IF addr # NULL
          THEN /\ mem' = WriteSentinel(mem, addr)
               /\ blocks' = blocks \cup {addr}
               /\ dlive' = dlive \cup
                    {[ptr |-> LargePtr(addr), kind |-> "large", slot |-> 0,
                      block |-> addr]}
               /\ last' = [NoLast EXCEPT !.op = "new", !.ptr = LargePtr(addr),
                                         !.kind = "large", !.target = addr]
               /\ crashed' = FALSE
          ELSE \E survives \in BOOLEAN :
               /\ mem' = IF survives THEN WriteSentinel(mem, addr) ELSE mem
               /\ blocks' = blocks
               /\ dlive' = IF survives
                           THEN dlive \cup
                                {[ptr |-> LargePtr(addr), kind |-> "large",
                                  slot |-> 0, block |-> addr]}
                           ELSE dlive
               /\ last' = [NoLast EXCEPT !.op = "new",
                                         !.ptr = IF survives THEN LargePtr(addr)
                                                 ELSE NULL,
                                         !.kind = "large", !.target = addr,
                                         !.mallocNull = TRUE]
               /\ crashed' = ~survives
    /\ UNCHANGED << dpages, pools >>

\* getPool(slot).allocate() takes the head of the free list of the page base
PoolPop(r, slot, base, m, pgs, set) ==
    LET header   == pgs[base]
        toReturn == header.head
        occupied == header.occupied + 1
        full     == occupied = DPoolSize(slot)
        fps      == IF full THEN pool_remove(set.freePools, base) ELSE set.freePools
    IN  /\ mem' = m
        /\ dpages' = [pgs EXCEPT ![base] =
                        [header EXCEPT !.head = m[toReturn], !.occupied = occupied]]
        /\ pools' = [pools EXCEPT ![slot] =
                        [freePools |-> fps,
                         freePool  |-> IF full THEN pool_first(fps) ELSE set.freePool]]
        /\ dlive' = dlive \cup
                      {[ptr |-> toReturn, kind |-> "small", slot |-> slot,
                        block |-> base]}
        /\ last' = [NoLast EXCEPT !.op = "new", !.ptr = toReturn,
                                  !.kind = "small", !.slot = slot, !.target = base]

\* the small path of custom_new_no_throw: getPools().getPool(t_size).allocate()
NewSmall(r) ==
    LET slot == RouteOf(r.size, r.align).slot
        set  == pools[slot]
        sel  == IF set.freePool # NULL THEN set.freePool
                ELSE pool_first(set.freePools)
    IN  /\ Cardinality(SmallLive) < MaxSmall
        /\ IF sel # NULL
           THEN PoolPop(r, slot, sel, mem, dpages, set)
           ELSE \E base \in DPageAddrs :
                   /\ ~dpages[base].mapped
                   /\ PoolPop(r, slot, base,
                              ConstructPage(mem, base, slot),
                              [dpages EXCEPT ![base] =
                                  [mapped |-> TRUE, sizeOfSlot |-> slot,
                                   occupied |-> 0,
                                   head |-> DSlotAddr(base, slot, 0)]],
                              [freePools |-> pool_insert(set.freePools, base),
                               freePool  |-> base])
        /\ crashed' = FALSE
        /\ UNCHANGED blocks

\* custom_new_no_throw(t_size, t_alignment)
CustomNewNoThrow(r) ==
    /\ ~crashed
    /\ IF RouteOf(r.size, r.align).path = "large" THEN NewLarge(r) ELSE NewSmall(r)
    /\ UNCHANGED << poolVars, routeVars, g2Vars >>

\* the client stores the 15 bytes "IsThIsMaLlOcD!" at the start of its small
\* object l, which has room for them
ClientStore(l) ==
    /\ ~crashed
    /\ l.kind = "small"
    /\ l.slot >= SizeofMallocHeader
    /\ ~IsMallocd(mem, l.ptr + SizeofMallocHeader)
    /\ mem' = WriteSentinel(mem, l.ptr)
    /\ UNCHANGED << dpages, pools, blocks, dlive, last, crashed, poolVars, routeVars, g2Vars >>

\* free(cAddr) in custom_delete
DeleteFree(l) ==
    LET cAddr == l.ptr - SizeofMallocHeader
    IN  /\ last' = [NoLast EXCEPT !.op = "delete", !.ptr = l.ptr, !.kind = l.kind,
                                  !.slot = l.slot, !.via = "free", !.target = cAddr]
        /\ dlive' = dlive \ {l}
        /\ IF cAddr \in blocks
           THEN /\ blocks' = blocks \ {cAddr}
                /\ mem' = [mem EXCEPT ![cAddr] = 0, ![cAddr + 8] = 0]
                /\ crashed' = FALSE
           ELSE /\ blocks' = blocks
                /\ mem' = mem
                \* free(NULL) does nothing; free of an address that malloc
                \* did not return corrupts the heap
                /\ crashed' = (cAddr # NULL)
        /\ UNCHANGED << dpages, pools >>

\* mutant: every pointer goes back to the pool set of the smallest class
PoolSetOf_smallest(ph) == SizeofVoidPtr

\* the pool set custom_delete hands the pointer to: getPool(ph.sizeOfSlot)
PoolSetOf(ph) == ph.sizeOfSlot

\* getPools().getPool(ph.sizeOfSlot).deallocate(t_ptr) in custom_delete
DeletePool(l) ==
    LET base     == DPoolOf(l.ptr)
        header   == dpages[base]
        slot     == PoolSetOf(header)
        set      == pools[slot]
        occupied == header.occupied - 1
    IN  /\ last' = [NoLast EXCEPT !.op = "delete", !.ptr = l.ptr, !.kind = l.kind,
                                  !.slot = l.slot, !.via = "pool", !.target = slot]
        /\ dlive' = dlive \ {l}
        /\ IF header.occupied = 1
           THEN /\ mem' = ReleasePage(mem, base)
                /\ dpages' = [dpages EXCEPT ![base] = NoPage]
                /\ pools' = [pools EXCEPT ![slot] =
                               [freePools |-> pool_remove(set.freePools, base),
                                freePool  |-> pool_first(pool_remove(set.freePools, base))]]
           ELSE /\ mem' = [mem EXCEPT ![l.ptr] = header.head]
                /\ dpages' = [dpages EXCEPT ![base] =
                                [header EXCEPT !.head = l.ptr, !.occupied = occupied]]
                /\ pools' = [pools EXCEPT ![slot] =
                               [freePools |-> IF occupied = DPoolSize(slot) - 1
                                              THEN pool_insert(set.freePools, base)
                                              ELSE set.freePools,
                                freePool  |-> base]]
        /\ crashed' = FALSE
        /\ UNCHANGED blocks

\* custom_delete(t_ptr) on a pointer that custom_new returned
CustomDelete(l) ==
    /\ ~crashed
    /\ IF IsMallocd(mem, l.ptr) THEN DeleteFree(l) ELSE DeletePool(l)
    /\ UNCHANGED << poolVars, routeVars, g2Vars >>

\* the state before the first call of custom_new
InitNew ==
    /\ mem = [a \in WordAddrs |-> 0]
    /\ dpages = [base \in DPageAddrs |-> NoPage]
    /\ pools = [slot \in DClasses |-> [freePools |-> {}, freePool |-> NULL]]
    /\ blocks = {}
    /\ dlive = {}
    /\ last = NoLast
    /\ crashed = FALSE
    /\ PoolIdle
    /\ RouteIdle
    /\ G2Idle

NextNew ==
    \/ \E r \in NewRequests : CustomNewNoThrow(r)
    \/ \E l \in dlive : ClientStore(l)
    \/ \E l \in dlive : CustomDelete(l)

SpecNew == InitNew /\ [][NextNew]_vars

\* ------------------------------------------- the replaced operator delete
\* operator delete, its nothrow form, operator delete[], its nothrow form
DeleteOperators ==
    { "operator delete", "operator delete nothrow",
      "operator delete[]", "operator delete[] nothrow" }

\* the operator tests t_ptr != nullptr before it calls custom_delete
TestsForNull(operator) ==
    operator \in {"operator delete", "operator delete nothrow"}

\* a replaced deallocation operator called with nullptr: it returns at once,
\* or it calls custom_delete(nullptr), whose strcmp reads the 16 bytes below
\* the null address; the process dies there or goes on as it was
OperatorDeleteNull(operator) ==
    /\ ~crashed
    /\ IF TestsForNull(operator)
       THEN /\ last' = [NoLast EXCEPT !.op = operator]
            /\ crashed' = FALSE
       ELSE /\ last' = [NoLast EXCEPT !.op = operator, !.via = "custom_delete",
                                      !.target = NULL - SizeofMallocHeader]
            /\ crashed' \in BOOLEAN
    /\ UNCHANGED << mem, dpages, pools, blocks, dlive >>
    /\ UNCHANGED << poolVars, routeVars, g2Vars >>

\* the operators on the pointers of custom_new, and on nullptr
NextOps ==
    \/ NextNew
    \/ \E operator \in DeleteOperators : OperatorDeleteNull(operator)

SpecOps == InitNew /\ [][NextOps]_vars

\* ------------------------------------------------ GlobalLinkedPool2
\* sizeof(NodeG2)
SizeofNodeG2 == 8

\* sizeof(PoolHeaderG2): isPool[8], sizeOfPool, sizeOfObjects, head
SizeofPoolHeaderG2 == 32

PAGE_SIZE == PageSize

\* t_ptr & POOL_MASK
POOL_MASK(t_ptr) == t_ptr - (t_ptr % PAGE_SIZE)

\* the arguments the constructor is called with
G2CtorArgs == {4, 16, 32}

\* m_sizeOfObjects as the constructor sets it
G2SizeOfObjects(t_sizeOfObjects) ==
    IF t_sizeOfObjects < SizeofNodeG2 THEN SizeofNodeG2 ELSE t_sizeOfObjects

\* m_poolSize as the constructor sets it
G2PoolSize(s) == (PAGE_SIZE - SizeofPoolHeaderG2) \div s

G2Threads == {1, 2}

\* the addresses aligned_alloc(PAGE_SIZE, PAGE_SIZE) can return
G2PageAddrs == { k * PAGE_SIZE : k \in 1..MaxG2Pages }

\* the slots of the pool at base
G2Slots(base, s) ==
    { base + SizeofPoolHeaderG2 + i * s : i \in 0..(G2PoolSize(s) - 1) }

\* a page that aligned_alloc has not returned yet
G2NoPage(base, s) ==
    [mapped        |-> FALSE,
     isPool        |-> FALSE,
     sizeOfPool    |-> 0,
     sizeOfObjects |-> 0,
     head          |-> NULL,
     next          |-> [a \in G2Slots(base, s) |-> NULL]]

\* the page as allocate initialises it: the default PoolHeaderG2, the size of
\* the objects, and the slots threaded in address order
G2NewPool(base, s) ==
    [mapped        |-> TRUE,
     isPool        |-> TRUE,
     sizeOfPool    |-> 0,
     sizeOfObjects |-> s,
     head          |-> base + SizeofPoolHeaderG2,
     next          |-> [a \in G2Slots(base, s) |->
                            IF a + s \in G2Slots(base, s) THEN a + s ELSE NULL]]

\* *m_freePools.begin()
G2Begin(set) == CHOOSE x \in set : \A y \in set : x <= y

\* m_freePools.size() == 0 ? nullptr : *m_freePools.begin()
G2BeginOrNull(set) == IF set = {} THEN NULL ELSE G2Begin(set)

\* getPoolHeader(t_ptr)
getPoolHeaderG2(t_ptr) == g2heap[POOL_MASK(t_ptr)]

G2NoObs == [crashed |-> FALSE, null |-> FALSE, stale |-> FALSE, alias |-> FALSE]

\* tells the uses of one pointer apart: the least number no use of it has
G2Copies(ptr) ==
    LET used == { l.nth : l \in { k \in g2live : k.ptr = ptr } }
    IN  CHOOSE n \in 0..Cardinality(used) :
            n \notin used /\ \A m \in 0..(n - 1) : m \in used

\* calls in progress and objects in use
G2InUse == Cardinality(g2live) + Cardinality({ t \in G2Threads : g2pc[t] # "idle" })

\* allocate up to the call of nextFree or to the lock_guard of the new pool:
\* m_freePool and m_freePools are read without m_poolLock
G2Select(t) ==
    /\ ~g2obs.crashed
    /\ g2pc[t] = "idle"
    /\ G2InUse < MaxG2Live
    /\ IF g2freePool # NULL
       THEN /\ g2pool' = [g2pool EXCEPT ![t] = g2freePool]
            /\ g2pc' = [g2pc EXCEPT ![t] = "nextFree"]
            /\ UNCHANGED g2heap
       ELSE IF g2freePools # {}
       THEN /\ g2pool' = [g2pool EXCEPT ![t] = G2Begin(g2freePools)]
            /\ g2pc' = [g2pc EXCEPT ![t] = "nextFree"]
            /\ UNCHANGED g2heap
       ELSE \E base \in G2PageAddrs :
            /\ ~g2heap[base].mapped
            /\ g2heap' = [g2heap EXCEPT ![base] = G2NewPool(base, g2size)]
            /\ g2pool' = [g2pool EXCEPT ![t] = base]
            /\ g2pc' = [g2pc EXCEPT ![t] = "publish"]
    /\ UNCHANGED << g2size, g2freePools, g2freePool, g2live, g2obs >>
    /\ UNCHANGED << poolVars, routeVars, newVars >>

\* allocate: the lock_guard block that inserts the new pool
G2Publish(t) ==
    /\ ~g2obs.crashed
    /\ g2pc[t] = "publish"
    /\ g2freePools' = g2freePools \cup {g2pool[t]}
    /\ g2freePool' = g2pool[t]
    /\ g2pc' = [g2pc EXCEPT ![t] = "nextFree"]
    /\ UNCHANGED << g2size, g2heap, g2pool, g2live, g2obs >>
    /\ UNCHANGED << poolVars, routeVars, newVars >>

\* the body of nextFree(pool) on the page contents h, under m_poolLock;
\* stale says that the page was released before
G2Pop(pool, h, stale) ==
    IF h.head # NULL
    THEN LET toReturn == h.head
             newSize  == h.sizeOfPool + 1
             set      == IF newSize = G2PoolSize(g2size)
                         THEN g2freePools \ {pool} ELSE g2freePools
         IN  /\ g2heap' = [g2heap EXCEPT ![pool].head = h.next[toReturn],
                                         ![pool].sizeOfPool = newSize]
             /\ g2freePools' = set
             /\ g2freePool' = IF newSize = G2PoolSize(g2size)
                              THEN G2BeginOrNull(set) ELSE g2freePool
             /\ g2obs' = [g2obs EXCEPT
                    !.stale = @ \/ stale,
                    !.alias = @ \/ (\E l \in g2live : l.ptr = toReturn)]
             /\ g2live' = g2live \cup {[ptr |-> toReturn, nth |-> G2Copies(toReturn)]}
    ELSE /\ g2obs' = [g2obs EXCEPT !.stale = @ \/ stale, !.null = TRUE]
         /\ UNCHANGED << g2heap, g2freePools, g2freePool, g2live >>

\* nextFree(pool) and the return of allocate; a pool whose page was released
\* is read after free: the process dies or reads what the page last held
G2NextFree(t) ==
    /\ ~g2obs.crashed
    /\ g2pc[t] = "nextFree"
    /\ LET pool == g2pool[t]
           h    == g2heap[pool]
       IN  IF h.mapped
           THEN G2Pop(pool, h, FALSE)
           ELSE \E survives \in BOOLEAN :
                IF survives
                THEN G2Pop(pool, h, TRUE)
                ELSE /\ g2obs' = [g2obs EXCEPT !.crashed = TRUE, !.stale = TRUE]
                     /\ UNCHANGED << g2heap, g2freePools, g2freePool, g2live >>
    /\ g2pc' = [g2pc EXCEPT ![t] = "idle"]
    /\ g2pool' = [g2pool EXCEPT ![t] = NULL]
    /\ UNCHANGED g2size
    /\ UNCHANGED << poolVars, routeVars, newVars >>

\* the body of deallocate(t_ptr) on the page contents h
G2Push(l, pool, h) ==
    LET newSize == (h.sizeOfPool - 1) % SizeModulus
        pushed  == [h EXCEPT !.next[l.ptr] = h.head,
                             !.head = l.ptr,
                             !.sizeOfPool = newSize]
    IN  IF newSize = 0
        THEN IF h.mapped
             THEN \E tag \in BOOLEAN :
                  /\ g2heap' = [g2heap EXCEPT ![pool] =
                                   [pushed EXCEPT !.mapped = FALSE, !.isPool = tag]]
                  /\ g2freePools' = g2freePools \ {pool}
                  /\ g2freePool' = G2BeginOrNull(g2freePools \ {pool})
                  /\ UNCHANGED g2obs
             ELSE /\ g2obs' = [g2obs EXCEPT !.crashed = TRUE]
                  /\ UNCHANGED << g2heap, g2freePools, g2freePool >>
        ELSE /\ g2heap' = [g2heap EXCEPT ![pool] = pushed]
             /\ g2freePool' = pool
             /\ g2freePools' = IF newSize = G2PoolSize(g2size) - 1
                               THEN g2freePools \cup {pool} ELSE g2freePools
             /\ UNCHANGED g2obs

\* deallocate(t_ptr) on a pointer that allocate returned, by a thread that is
\* not inside allocate; a pointer into a released page is written after free
G2Deallocate(l) ==
    /\ ~g2obs.crashed
    /\ \E t \in G2Threads : g2pc[t] = "idle"
    /\ LET pool == POOL_MASK(l.ptr)
           h    == g2heap[pool]
       IN  IF h.mapped
           THEN G2Push(l, pool, h)
           ELSE \E survives \in BOOLEAN :
                IF survives
                THEN G2Push(l, pool, h)
                ELSE /\ g2obs' = [g2obs EXCEPT !.crashed = TRUE]
                     /\ UNCHANGED << g2heap, g2freePools, g2freePool >>
    /\ g2live' = g2live \ {l}
    /\ UNCHANGED << g2size, g2pc, g2pool >>
    /\ UNCHANGED << poolVars, routeVars, newVars >>

\* GlobalLinkedPool2(t_sizeOfObjects) has run
InitG2 ==
    /\ g2size \in { G2SizeOfObjects(n) : n \in G2CtorArgs }
    /\ g2heap = [base \in G2PageAddrs |-> G2NoPage(base, g2size)]
    /\ g2freePools = {}
    /\ g2freePool = NULL
    /\ g2pc = [t \in G2Threads |-> "idle"]
    /\ g2pool = [t \in G2Threads |-> NULL]
    /\ g2live = {}
    /\ g2obs = G2NoObs
    /\ PoolIdle
    /\ RouteIdle
    /\ NewIdle

NextG2 ==
    \/ \E t \in G2Threads : G2Select(t)
    \/ \E t \in G2Threads : G2Publish(t)
    \/ \E t \in G2Threads : G2NextFree(t)
    \/ \E l \in g2live : G2Deallocate(l)

SpecG2 == InitG2 /\ [][NextG2]_vars

\* ------------------------------------------------ claims on custom_new
\* the normalized size of the specification: the size rounded up to a multiple
\* of the pointer size, plus one pointer word when that is not a multiple of
\* the alignment
NormalizedSize(r) ==
    LET rounded == ((r.size + SizeofVoidPtr - 1) \div SizeofVoidPtr) * SizeofVoidPtr
    IN  rounded + (IF rounded % r.align = 0 THEN 0 ELSE SizeofVoidPtr)

\* C15: custom_new_no_throw routes a request to the large path if and only
\* if its normalized size is greater than the 128-byte threshold.
C15_LargeIffNormalizedAboveThreshold ==
    routed.path # "none" =>
        (routed.path = "large" <=> NormalizedSize(req) > threshold)

\* C16: for every request sent to the small path, the slot size passed to
\* getPool is in [pointer size, 128] and its index lies in [0, 15].
C16_SlotAndIndexInRange ==
    routed.path = "small" =>
        /\ routed.slot >= SizeofVoidPtr
        /\ routed.slot <= threshold
        /\ routed.index \in 0..(NumPools - 1)

\* C17: for every small-path request, the slot size chosen is a multiple of
\* the pointer size, is at least the size, and is a multiple of the alignment.
C17_SlotFitsSizeAndAlignment ==
    routed.path = "small" =>
        /\ routed.slot % SizeofVoidPtr = 0
        /\ routed.slot >= req.size
        /\ routed.slot % req.align = 0

\* C18: requests that are oversized (size above the threshold) or
\* over-aligned (alignment larger than a pool slot can guarantee) are passed
\* to the system allocator.
C18_OversizedOrOverAlignedToMalloc ==
    routed.path # "none" =>
        ( ( \/ req.size > threshold
            \/ req.align > SlotAlignment(SlotSizeFor(req.size, req.align)) )
          => routed.path = "large" )

\* C11: every pointer p that custom_new_no_throw returned for a request above
\* the threshold has the malloc sentinel in the 16 bytes before p, and p is
\* the address of the block that malloc returned plus 16.
C11_SentinelBeforeLargePointer ==
    \A l \in LargeLive :
        /\ mem[l.ptr - 16] = SENT_LO
        /\ mem[l.ptr - 8] = SENT_HI
        /\ l.ptr = l.block + 16

\* C11 witness: a large pointer of a block of malloc is live next to a small
\* object in which the client has stored bytes of its own
C11_Witness ==
    /\ \E l \in LargeLive : l.block \in blocks
    /\ \E l \in SmallLive : mem[l.ptr] = SENT_LO

\* C12: for every pointer p returned by the small path, the bytes at
\* p - sizeof(MallocHeader) never equal the malloc sentinel, whatever the
\* preceding bytes hold, and custom_delete never sends a pool pointer to free().
C12_NoSentinelBeforePoolPointer ==
    /\ \A l \in SmallLive :
          ~(mem[l.ptr - 16] = SENT_LO /\ mem[l.ptr - 8] = SENT_HI)
    /\ (last.op = "delete" /\ last.kind = "small") => last.via # "free"

\* C13: custom_delete releases each pointer of the large path with
\* free(p - sizeof(MallocHeader)) and passes each pointer of the small path to
\* deallocate of the pool set of the slot size it was allocated with.
C13_DeleteRoutesByOrigin ==
    last.op = "delete" =>
        /\ last.kind = "large" =>
              (last.via = "free" /\ last.target = last.ptr - 16)
        /\ last.kind = "small" =>
              (last.via = "pool" /\ last.target = last.slot)

\* C19: when malloc returns null on the large path, custom_new_no_throw
\* returns null and writes no sentinel through the null address.
C19_NullFromMallocIsReturned ==
    (last.op = "new" /\ last.mallocNull) =>
        /\ last.ptr = NULL
        /\ ~crashed
        /\ mem[0] = 0
        /\ mem[8] = 0

\* ------------------------------------------------ claims on GlobalLinkedPool2
\* C14: for every pointer p that allocate returned and that was not yet
\* deallocated, the header at p masked to the page boundary carries the
\* "__pool_" tag and the slot size the pool set was constructed for.
C14_HeaderOfLivePointer ==
    \A l \in g2live :
        LET h == getPoolHeaderG2(l.ptr)
        IN  h.mapped /\ h.isPool /\ h.sizeOfObjects = g2size

\* ------------------------------------------------ claims on out of memory
\* C20: when aligned_alloc fails while the pool needs a new page, allocate()
\* returns null, writes nothing through the failed page, leaves the set of
\* pools and the cached pool as they were and leaves m_poolLock released.
C20_OomReturnsNull ==
    oom # "none" =>
        /\ \E t \in Threads : pc[t] = "alloc_ret" /\ ret[t] = NULL
        /\ NULL \notin DOMAIN heap
        /\ m_freePools = {}
        /\ m_freePool = NULL
        /\ m_poolLock = 0

\* ------------------------------------------------ claims on custom_new (2)
\* C21: custom_new throws std::bad_alloc exactly when custom_new_no_throw
\* returned null; otherwise it returns the same pointer, which is not null.
C21_ThrowsIffNull ==
    wrap.done =>
        /\ wrap.threw <=> wrap.toRet = NULL
        /\ ~wrap.threw => wrap.result = wrap.toRet /\ wrap.result # NULL

\* custom_new has thrown on a null result
C21_Witness == wrap.done /\ wrap.toRet = NULL /\ wrap.threw

\* C22: a request of size 0 is sent to the small path with the minimum slot
\* size, one pointer, and with size-class index 0.
C22_SizeZeroGetsMinimumSlot ==
    (routed.path # "none" /\ req.size = 0) =>
        /\ routed.path = "small"
        /\ routed.slot = SizeofVoidPtr
        /\ routed.index = 0

\* ------------------------------------------------ claims on concurrency
\* C23: with several threads calling allocate() and deallocate() on one
\* LinkedPool, in every interleaving the pointers the threads hold (live or
\* being returned) are pairwise different, and once every thread has finished
\* with all its pointers deallocated the tree is empty and the cached pool null.
C23_NoAliasAndEmptyAtEnd ==
    /\ Cardinality(live \cup Returning)
           = Cardinality(live) + Cardinality({ t \in Threads : pc[t] = "alloc_ret" })
    /\ (AllIdle /\ live = {}) => (m_freePools = {} /\ m_freePool = NULL)

\* C23 witness: more than one thread has called the pool, a page was freed
\* and all the pointers were given back
C23_Witness == AllIdle /\ live = {} /\ anyFreed /\ ~solo

\* C24: in every interleaving of allocate and deallocate on one
\* GlobalLinkedPool2, nextFree never reads the header of, or pops a slot
\* from, a pool whose page a deallocate has passed to free().
C24_NoAccessToReleasedPool == ~g2obs.stale

\* C25: the calls on one LinkedPool are linearizable: whenever m_poolLock is
\* free the tree, the cached pool and the pages equal those of a pool on which
\* the same calls ran one at a time, each as a whole at a moment between its
\* call and its return, and every allocate() returns what it returned there.
C25_Linearizable ==
    /\ [](m_poolLock = 0 =>
            (heap = seq.heap /\ m_freePools = seq.fps /\ m_freePool = seq.fp))
    /\ [][ \A t \in Threads :
              (pc[t] = "alloc_next" /\ pc'[t] = "alloc_ret") => ret'[t] = seq.ret[t] ]_vars

\* C25 witness: a thread is between two steps of the body of its allocate()
\* while another thread waits for the lock in deallocate(), after a page was freed
C25_Witness ==
    \E t, u \in Threads :
        /\ pc[t] = "alloc_next"
        /\ pc[u] = "dealloc_lock"
        /\ anyFreed

\* ------------------------------------------------ claims on the pool set
\* LinkedPool<T>::getNumberOfPools()
getNumberOfPools == pool_count(m_freePools)

\* C27: between the calls, getNumberOfPools() returns the number of pages
\* that the pool has acquired and not yet released.
C27_NumberOfPoolsIsPagesAllocated ==
    m_poolLock = 0 => getNumberOfPools = Cardinality(MappedPages)

\* a step in which the body of allocate() of thread t runs
AllocStepOf(t) == pc[t] = "alloc_cs" /\ pc'[t] = "alloc_ret"

C29_HeaderBytesOwned ==
    \A l \in dlive :
        IF l.kind = "large"
        THEN l.ptr - SizeofMallocHeader \in blocks
        ELSE /\ DPoolOf(l.ptr - SizeofMallocHeader) = DPoolOf(l.ptr)
             /\ dpages[DPoolOf(l.ptr)].mapped

\* ------------------------------------------------ claims on the free lists
\* the nodes reachable from node a along next, added to seen
RECURSIVE ReachFrom(_, _, _)
ReachFrom(next, a, seen) ==
    IF a = NULL \/ a \in seen \/ a \notin DOMAIN next
    THEN seen
    ELSE ReachFrom(next, next[a], seen \cup {a})

\* the number of nodes reachable from the head of the free list of a pool
FreeListLength(header) == Cardinality(ReachFrom(header.next, header.head, {}))

\* C30: for every pool of a GlobalLinkedPool2 whose page is allocated, between
\* the critical sections, the occupied count plus the number of nodes reachable
\* from the head of the free list is the capacity, and the occupied count lies
\* between 0 and the capacity.
C30_OccupiedPlusFreeIsCapacity ==
    \A base \in G2PageAddrs :
        g2heap[base].mapped =>
            /\ g2heap[base].sizeOfPool + FreeListLength(g2heap[base]) = G2PoolSize(g2size)
            /\ g2heap[base].sizeOfPool >= 0
            /\ g2heap[base].sizeOfPool <= G2PoolSize(g2size)

\* ------------------------------------------------ claims on __allocators
\* C26: at most one pool object per size class is ever created and stored in
\* __allocators, also when threads make their first allocation of the class
\* at the same time, and every pointer of the class is allocated from and
\* deallocated to that object.
C26_OnePoolSetPerClass ==
    /\ \A i \in DispIndexes : disp.created[i] <= 1
    /\ \A ptr \in disp.ptrs : ptr.from = disp.allocators[getAllocatorsIndex(ptr.size)]
    /\ ~disp.misdelivered

\* ------------------------------------- claims on the LinkedPool free lists
\* the walk from node a along next ends at a null pointer, without coming
\* back to a node it has passed and without leaving the nodes of next
RECURSIVE EndsAtNull(_, _, _)
EndsAtNull(next, a, seen) ==
    IF a = NULL
    THEN TRUE
    ELSE IF a \in seen \/ a \notin DOMAIN next
         THEN FALSE
         ELSE EndsAtNull(next, next[a], seen \cup {a})

\* the nodes of the free list of the pool at page g
FreeListOf(g) == ReachFrom(heap[g].next, heap[g].head, {})

\* the pointers the clients hold, are about to receive, or have passed to a
\* deallocate() that has not pushed them yet
InUse == live \cup Returning \cup Deallocating

PartialPools ==
    { g \in MappedPages :
        heap[g].occupiedSlots > 0 /\ heap[g].occupiedSlots < m_poolSize }

\* the pools of the GlobalLinkedPool2 whose page is allocated
G2MappedPages == { base \in DOMAIN g2heap : g2heap[base].mapped }

\* the pools of the GlobalLinkedPool2 that are neither empty nor full
G2PartialPools ==
    { base \in G2MappedPages :
        g2heap[base].sizeOfPool > 0 /\ g2heap[base].sizeOfPool < G2PoolSize(g2size) }

\* no thread is inside allocate() or deallocate() of the GlobalLinkedPool2
G2AllIdle == \A t \in DOMAIN g2pc : g2pc[t] = "idle"

\* C32: between the operations of a pool set, the set of pools with a free
\* slot holds exactly the allocated pools with 0 < occupied < capacity: a full
\* pool is absent, and no allocated pool has occupied = 0 (it was released).
\* Stated for LinkedPool (m_freePools) and for GlobalLinkedPool2.
C32_NonFullSetExact ==
    /\ m_poolLock = 0 =>
          /\ m_freePools = PartialPools
          /\ \A g \in MappedPages : heap[g].occupiedSlots # 0
    /\ G2AllIdle =>
          /\ g2freePools = G2PartialPools
          /\ \A base \in G2MappedPages : g2heap[base].sizeOfPool # 0

\* ------------------------------------------- claims on the life of a pool
\* a step in which allocate() of thread t returns a slot of page g
AllocStepFrom(t, g) == AllocStepOf(t) /\ PoolOf(ret'[t]) = g

\* the occupied count of page g in the memory h; a released page has none
OccupiedIn(h, g) == IF h[g].mapped THEN h[g].occupiedSlots ELSE 0

\* what C33 says of every step but the deallocate of a full pool: the count
\* of a pool changes by one in an operation on it and not otherwise, the pool
\* leaves the set of pools with a free slot exactly when an allocate fills it
\* or a deallocate releases it, and the pool that allocate selects is allocated
PoolStepRules(g) ==
    /\ (\E t \in Threads : AllocStepFrom(t, g))
          => /\ OccupiedIn(heap', g) = OccupiedIn(heap, g) + 1
             /\ heap'[g].mapped
             /\ OccupiedIn(heap', g) = m_poolSize => g \notin m_freePools'
    /\ (\E t \in Threads : DeallocStepOn(t, g))
          => /\ heap[g].mapped
             /\ OccupiedIn(heap', g) = OccupiedIn(heap, g) - 1
             /\ OccupiedIn(heap', g) = 0 <=> ~heap'[g].mapped
    /\ ~(\E t \in Threads : AllocStepFrom(t, g) \/ DeallocStepOn(t, g))
          => /\ heap'[g] = heap[g]
             /\ g \in m_freePools' <=> g \in m_freePools
    /\ (g \in m_freePools /\ g \notin m_freePools')
          => \/ OccupiedIn(heap', g) = m_poolSize
             \/ ~heap'[g].mapped

\* a released pool is neither the cached pool nor among the pools with a
\* free slot
ReleasedPoolsForgotten ==
    /\ m_freePool # NULL => heap[m_freePool].mapped
    /\ m_freePools \subseteq MappedPages

\* C33 as stated: the rules above, and the deallocate that finds the pool full
\* puts it back among the pools with a free slot.
C33_Original ==
    /\ []ReleasedPoolsForgotten
    /\ [][ \A g \in PageAddrs :
              /\ PoolStepRules(g)
              /\ ((\E t \in Threads : DeallocStepOn(t, g))
                     /\ OccupiedIn(heap, g) = m_poolSize)
                 => g \in m_freePools' ]_vars

\* C33: the rules above, and the deallocate that finds the pool full puts it
\* back among the pools with a free slot when the capacity is at least 2;
\* when the capacity is 1 that deallocate releases the pool instead.
C33_PoolLifecycle ==
    /\ []ReleasedPoolsForgotten
    /\ [][ \A g \in PageAddrs :
              /\ PoolStepRules(g)
              /\ ((\E t \in Threads : DeallocStepOn(t, g))
                     /\ OccupiedIn(heap, g) = m_poolSize)
                 => IF m_poolSize >= 2
                    THEN g \in m_freePools' /\ heap'[g].mapped
                    ELSE g \notin m_freePools' /\ ~heap'[g].mapped ]_vars

\* C33 witness: a pool whose first slot is the only free one, which can only
\* be after the pool was full, is among the pools with a free slot, and a page
\* has been released
C33_Witness ==
    /\ AllIdle
    /\ anyFreed
    /\ m_poolSize >= 2
    /\ \E g \in m_freePools :
          /\ heap[g].occupiedSlots = m_poolSize - 1
          /\ heap[g].head = SlotAddr(g, 0)

\* ------------------------------------------------- claims on termination
\* LinkedPool under a scheduler that lets every thread run and a lock that a
\* waiting thread gets when it is released again and again
Fairness ==
    \A t \in Threads :
        /\ SF_vars(AllocLock(t))
        /\ WF_vars(AllocBody(t))
        /\ WF_vars(AllocReturn(t))
        /\ SF_vars(DeallocLock(t))
        /\ WF_vars(DeallocBody(t))

SpecFair == Init /\ [][Next]_vars /\ Fairness

\* GlobalLinkedPool2 under a scheduler that lets every thread run; the
\* lock_guard blocks are steps of their own, so no thread waits inside one
G2Fairness ==
    \A t \in G2Threads :
        /\ WF_vars(G2Publish(t))
        /\ WF_vars(G2NextFree(t))

SpecG2Fair == InitG2 /\ [][NextG2]_vars /\ G2Fairness

\* a thread that is not between lock() and unlock() does not hold m_poolLock
LockHeldOnlyInside ==
    \A t \in DOMAIN pc :
        pc[t] \in {"idle", "alloc_lock", "dealloc_lock", "alloc_ret"}
            => m_poolLock # t

\* thread t is not inside allocate() or deallocate() of the LinkedPool
Returned(t) == t \in DOMAIN pc => pc[t] = "idle"

\* thread t is not inside allocate() or deallocate() of the GlobalLinkedPool2
G2Returned(t) == t \in DOMAIN g2pc => g2pc[t] = "idle"

\* C34: a thread holds the lock of its pool set only inside its critical
\* section and has released it when the call returns, and under a fair
\* scheduler every allocate and deallocate that was started returns, in
\* LinkedPool and in GlobalLinkedPool2.
C34_EveryCallReturns ==
    /\ []LockHeldOnlyInside
    /\ \A t \in Threads : ~Returned(t) ~> Returned(t)
    /\ \A t \in G2Threads : ~G2Returned(t) ~> G2Returned(t)

\* ---------------------------------------------- claims on independence
\* the pages of the size class slot among the pages pgs
PagesOfClass(slot, pgs) ==
    { base \in DPageAddrs : pgs[base].mapped /\ pgs[base].sizeOfSlot = slot }

\* the state of the size class slot: its pool set in ps, and the headers in
\* pgs and the memory in m of its pages
ClassState(slot, ps, pgs, m) ==
    [ set   |-> ps[slot],
      pages |-> [ base \in PagesOfClass(slot, pgs) |->
                    [ header |-> pgs[base],
                      words  |-> [ a \in PageWords(base) |-> m[a] ] ] ] ]

\* the step is a call of custom_new_no_throw or custom_delete
DispatchStep == dlive' # dlive \/ last' # last

\* a call of deallocate() on a slot of a pool leaves the other pools of the
\* same LinkedPool as they were
OtherPoolsUntouched ==
    \A t \in Threads : \A g \in PageAddrs :
        DeallocStepOn(t, g)
            => \A other \in PageAddrs \ {g} : heap'[other] = heap[other]

C36_CacheNullIffSetEmpty ==
    /\ [](m_poolLock = 0 =>
             /\ m_freePool = NULL <=> m_freePools = {}
             /\ m_freePool # NULL =>
                   /\ m_freePool \in m_freePools
                   /\ HasFreeSlot(m_freePool))
    /\ [][ \A t \in Threads :
              (AllocStepOf(t) /\ m_freePool = NULL)
                  => /\ pool_first(m_freePools) = NULL
                     /\ ~heap[PoolOf(ret'[t])].mapped
                     /\ heap'[PoolOf(ret'[t])].mapped ]_vars

\* C36 witness: a thread is inside allocate() with m_freePool null while
\* pages are allocated, all of them full, after a page was released
C36_Witness ==
    /\ \E t \in Threads : pc[t] = "alloc_cs"
    /\ m_freePool = NULL
    /\ MappedPages # {}
    /\ anyFreed

\* ------------------------------------------- claims on the page layout
\* the number of Node objects constructPoolHeader constructs: one in each
\* round of the loop, whose bound m_poolSize - 1 is computed in size_t, and
\* one after the loop
NodesLaidOut(poolSize) == ((poolSize - 1) % SizeModulus) + 1

\* the number of slots of m_slotSize bytes that fit in the page after the
\* header and its padding
SlotsThatFit == (pageSize - SizeofPoolHeader - m_headerPadding) \div m_slotSize

\* C37: for every type whose size and power-of-two alignment do not exceed
\* the page size, sizeof(PoolHeader) + m_headerPadding + m_poolSize * m_slotSize
\* is at most the page size, and every slot that constructPoolHeader lays
\* out lies inside the page.
C37_SlotsInsidePage ==
    constructed =>
        /\ SizeofPoolHeader + m_headerPadding + m_poolSize * m_slotSize <= pageSize
        /\ NodesLaidOut(m_poolSize) <= SlotsThatFit

\* C38: the offset of the first slot, sizeof(PoolHeader) + m_headerPadding,
\* and m_slotSize are multiples of alignof(T), m_slotSize is at least
\* sizeof(T) and at least sizeof(Node), and every pointer that allocate()
\* returns is a multiple of alignof(T).
C38_PointersAligned ==
    constructed =>
        /\ (SizeofPoolHeader + m_headerPadding) % T.align = 0
        /\ m_slotSize % T.align = 0
        /\ m_slotSize >= T.size
        /\ m_slotSize >= SizeofNode
        /\ \A p \in live \cup Returning : p % T.align = 0

\* C38 witness: objects of a type aligned to 32 bytes, whose pages have a
\* padded header, are live in two pages
C38_Witness ==
    /\ T.align = 32
    /\ m_headerPadding > 0
    /\ \E p \in live : \E q \in live : PoolOf(p) # PoolOf(q)

\* ------------------------------------- claims on GlobalLinkedPool2::allocate
\* C39: with aligned_alloc always succeeding, no allocate() of a
\* GlobalLinkedPool2 returns a null pointer, whatever the interleaving; two
\* threads that select the same pool when one slot of it is free both get a
\* slot.
C39_AllocateNeverNull == ~g2obs.null

\* ------------------------------------------- claims on operator delete
\* C40: operator delete, operator delete[] and their nothrow forms do nothing
\* when they are given nullptr: none of them calls custom_delete, so none
\* reads memory at the null address minus sizeof(MallocHeader).
C40_DeleteNullIsNoOp ==
    last.op \in DeleteOperators =>
        /\ last.via # "custom_delete"
        /\ last.target # NULL - SizeofMallocHeader
        /\ ~crashed

====
